---- MODULE Spec2Model ----
(***************************************************************************)
(* Page-level machinery of the slab allocator (src/src/pages.rs):          *)
(*   - the bit-per-slot occupancy tracker (impl Bitfield for [u64]),       *)
(*   - the derived operations of AllocablePage (allocate, deallocate),     *)
(*   - the intrusive doubly-linked PageList.                               *)
(* Three specifications share the variables:                               *)
(*   ListSpec  the PageList operations on a pool of pages,                 *)
(*   Spec      the tracker operations of one ObjectPage8k,                 *)
(*   SeqSpec   one page, initialized once, then allocated from until full, *)
(*   RegionSpec  ObjectPage8k::new and retrieve_mapped_pages on regions.   *)
(***************************************************************************)
EXTENDS Integers, Naturals, Sequences, FiniteSets, TLC

(* ------------------------------ bounds -------------------------------- *)
\* number of pages in the pool the lists link
NPages == 4
\* number of PageList instances
NLists == 2
\* number of tracker operations in a run of Spec
MaxOps == 3
\* allocate calls made after the page is full in a run of SeqSpec, and
\* next() calls made after an iterator has yielded none
MaxExtraCalls == 2
\* calls of a run with mixed alignments
MaxMixCalls == 11
\* calls of a run that allocates and deallocates with one layout
MaxLiveCalls == 7
\* lists and pages in a run of IterSpec
NIterLists == 1
NIterPages == 3
\* clear_metadata calls in a run of ClearSpec
MaxClears == 2
\* number of places a page can be constructed at in a run of RegionSpec
NFrames == 2

(* -------------------------- program constants ------------------------- *)
\* ObjectPage8k::SIZE
SIZE == 8192
\* size_of::<MappedPages>(): the type is defined outside this crate; the
\* width is the one of the configuration the specification describes
\* (metadata size 96, data region 8096 bytes).
MAPPED_PAGES_SIZE == 8
\* ObjectPage8k::METADATA_SIZE
METADATA_SIZE == 88 + MAPPED_PAGES_SIZE
\* bits of one u64 word of the bitfield
WORD_BITS == 64
\* words of the bitfield: [u64; 8]
NWORDS == 8

\* Rawlink::none(): the null pointer
NULL == 0

Min(a, b) == IF a <= b THEN a ELSE b

VARIABLES
    \* PageList state
    head,        \* head[l]: PageList::head of list l (a page or NULL)
    elements,    \* elements[l]: PageList::elements of list l
    next,        \* next[p]: ObjectPage8k::next of page p
    prev,        \* prev[p]: ObjectPage8k::prev of page p
    lcall,       \* the last list call and what it returned
    inserted,    \* inserted[l]: the pages linked into list l and not unlinked
                 \* since, in the order of their insert_front calls
    iter,        \* the ObjectPageIterMut the caller holds, if any
    \* tracker state of one page
    heap_id,     \* heap_id[p]: ObjectPage8k::heap_id of page p
    base_addr,   \* address of the page (a multiple of SIZE)
    overflow_checks, \* the build: TRUE panics on usize overflow, FALSE wraps
    bitfield,    \* bitfield[w]: the set of bit positions set in word w
    halted,      \* a fatal assertion or panic has stopped the program
    call,        \* the last tracker call, its result, the tracker before it
    prevcall,    \* the call before the last
    inited,      \* arguments of the last initialize, and whether every
                 \* allocate/deallocate since used that object size
    nops,        \* number of tracker calls made
    live,        \* the addresses allocate returned and deallocate has not taken
                 \* back since
    \* construction and decommissioning of pages
    pageobj,     \* pageobj[f]: the ObjectPage8k constructed at place f, if any
    caller,      \* the region handles the caller holds
    rcall        \* the last new / retrieve_mapped_pages call and its result

listvars == <<head, elements, next, prev, lcall, inserted, iter>>
pagevars == <<heap_id, base_addr, overflow_checks, bitfield, halted, call, prevcall,
              inited, nops, live>>
regionvars == <<pageobj, caller, rcall>>
vars == <<head, elements, next, prev, lcall, inserted, iter,
          heap_id, base_addr, overflow_checks, bitfield, halted, call, prevcall, inited,
          nops, live,
          pageobj, caller, rcall>>

(***************************************************************************)
(*                               PageList                                  *)
(***************************************************************************)
Pages == 1..NPages
Lists == 1..NLists

\* The list fields an operation reads and writes: the head and the count
\* of one list, and the links of all pages.
ListState(h, e, nx, pv) == [head |-> h, elements |-> e, next |-> nx, prev |-> pv]

\* insert_front with a fault: the count is not incremented when the list
\* is empty.
insert_front_nocount(L, new_head) ==
    IF L.head = NULL
    THEN ListState(new_head, L.elements,
                   L.next, [L.prev EXCEPT ![new_head] = NULL])
    ELSE ListState(new_head, L.elements + 1,
                   [L.next EXCEPT ![new_head] = L.head],
                   [L.prev EXCEPT ![new_head] = NULL, ![L.head] = new_head])

\* insert_front with a fault: the old head's prev is not pointed at the
\* new head.
insert_front_noprev(L, new_head) ==
    IF L.head = NULL
    THEN ListState(new_head, L.elements + 1,
                   L.next, [L.prev EXCEPT ![new_head] = NULL])
    ELSE ListState(new_head, L.elements + 1,
                   [L.next EXCEPT ![new_head] = L.head],
                   [L.prev EXCEPT ![new_head] = NULL])

\* insert_front with a fault: head and new_head are not swapped, so the old
\* head stays the head and the new page is linked behind it.
insert_front_noswap(L, new_head) ==
    IF L.head = NULL
    THEN ListState(new_head, L.elements + 1,
                   L.next, [L.prev EXCEPT ![new_head] = NULL])
    ELSE ListState(L.head, L.elements + 1,
                   [L.next EXCEPT ![L.head] = new_head],
                   [L.prev EXCEPT ![new_head] = NULL, ![L.head] = new_head])

\* PageList::insert_front
insert_front(L, new_head) ==
    IF L.head = NULL
    THEN \* *new_head.prev() = none; self.head = Some(new_head)
         ListState(new_head, L.elements + 1,
                   L.next, [L.prev EXCEPT ![new_head] = NULL])
    ELSE \* *new_head.prev() = none; *head.prev() = some(new_head);
         \* swap(head, new_head); *head.next() = some(old head)
         LET pv1 == [L.prev EXCEPT ![new_head] = NULL]
             pv2 == [pv1 EXCEPT ![L.head] = new_head]
             nx1 == [L.next EXCEPT ![new_head] = L.head]
         IN  ListState(new_head, L.elements + 1, nx1, pv2)

\* remove_from_list with a fault: the previous page's next is set to none
\* instead of the removed page's next.
remove_from_list_drops_tail(L, slab_page) ==
    LET h1  == IF L.prev[slab_page] = NULL THEN L.next[slab_page] ELSE L.head
        nx1 == IF L.prev[slab_page] = NULL THEN L.next
               ELSE [L.next EXCEPT ![L.prev[slab_page]] = NULL]
        pv1 == IF L.next[slab_page] = NULL THEN L.prev
               ELSE [L.prev EXCEPT ![L.next[slab_page]] = L.prev[slab_page]]
    IN  ListState(h1, L.elements - 1,
                  [nx1 EXCEPT ![slab_page] = NULL], [pv1 EXCEPT ![slab_page] = NULL])

\* PageList::remove_from_list
remove_from_list(L, slab_page) ==
    LET \* match slab_page.prev(): None => head = slab_page.next
        \*                         Some(prev) => prev.next = slab_page.next
        h1  == IF L.prev[slab_page] = NULL THEN L.next[slab_page] ELSE L.head
        nx1 == IF L.prev[slab_page] = NULL THEN L.next
               ELSE [L.next EXCEPT ![L.prev[slab_page]] = L.next[slab_page]]
        \* match slab_page.next(): Some(next) => next.prev = slab_page.prev
        pv1 == IF nx1[slab_page] = NULL THEN L.prev
               ELSE [L.prev EXCEPT ![nx1[slab_page]] = L.prev[slab_page]]
        \* *slab_page.prev() = none; *slab_page.next() = none
        pv2 == [pv1 EXCEPT ![slab_page] = NULL]
        nx2 == [nx1 EXCEPT ![slab_page] = NULL]
    IN  ListState(h1, L.elements - 1, nx2, pv2)

\* pop with a fault: the next link of the page returned is not cleared.
pop_keeps_next(L) ==
    LET old == L.head
        h1  == L.next[old]
        pv1 == IF h1 = NULL THEN L.prev ELSE [L.prev EXCEPT ![h1] = NULL]
    IN  ListState(h1, L.elements - 1, L.next, [pv1 EXCEPT ![old] = NULL])

\* pop with a fault: the head is set to none instead of the page that
\* followed the old head.
pop_drops_rest(L) ==
    LET old == L.head
    IN  ListState(NULL, L.elements - 1,
                  [L.next EXCEPT ![old] = NULL], [L.prev EXCEPT ![old] = NULL])

\* PageList::pop on a non-empty list: the new list state; the page
\* returned is the old head.
pop(L) ==
    LET old == L.head
        \* new_head = head.next().resolve_mut(); swap(self.head, new_head)
        h1  == L.next[old]
        \* self.head.as_mut().map(|n| *n.prev() = none)
        pv1 == IF h1 = NULL THEN L.prev ELSE [L.prev EXCEPT ![h1] = NULL]
        \* new_head.map(|node| { node.prev = none; node.next = none })
        pv2 == [pv1 EXCEPT ![old] = NULL]
        nx1 == [L.next EXCEPT ![old] = NULL]
    IN  ListState(h1, L.elements - 1, nx1, pv2)

\* ObjectPageIterMut::next with a fault: the iterator's link is not moved
\* to the next page.
iter_next_stuck(nx, h) ==
    IF h = NULL THEN [item |-> NULL, head |-> NULL] ELSE [item |-> h, head |-> h]

\* ObjectPageIterMut::next on an iterator whose link is h: the page yielded
\* (NULL for None) and the iterator's link afterwards
iter_next(nx, h) ==
    IF h = NULL THEN [item |-> NULL, head |-> NULL]
    ELSE [item |-> h, head |-> nx[h]]

\* ObjectPageIterMut::next, run to the end from link p: the pages yielded,
\* cut after fuel pages.
RECURSIVE iterate(_, _, _)
iterate(nx, p, fuel) ==
    IF fuel = 0 THEN <<>>
    ELSE LET r == iter_next(nx, p)
         IN  IF r.item = NULL THEN <<>>
             ELSE <<r.item>> \o iterate(nx, r.head, fuel - 1)

\* PageList::iter_mut followed by the whole iteration
iter_mut(l) == iterate(next, head[l], NPages + 1)

Range(s) == {s[i] : i \in 1..Len(s)}

\* the pages reachable from the head of list l
Reachable(l) == Range(iter_mut(l))

\* a page the caller holds: linked in no list
Unlinked(p) == \A l \in Lists : p \notin Reachable(l)

ListOf(l) == ListState(head[l], elements[l], next, prev)

Install(l, L) ==
    /\ head' = [head EXCEPT ![l] = L.head]
    /\ elements' = [elements EXCEPT ![l] = L.elements]
    /\ next' = L.next
    /\ prev' = L.prev

\* contains with a fault: pages are compared by their contents (here
\* their links), not by their address.
contains_by_value(l, s) ==
    \E i \in 1..Len(iter_mut(l)) :
        /\ s \in Pages
        /\ next[iter_mut(l)[i]] = next[s]
        /\ prev[iter_mut(l)[i]] = prev[s]

\* PageList::contains: for slab_page in self.iter_mut(), true at the first
\* page whose address is s
contains(l, s) == \E i \in 1..Len(iter_mut(l)) : iter_mut(l)[i] = s

Without(seq, p) == SelectSeq(seq, LAMBDA q : q # p)

LCall(o, l, p, r) ==
    [op |-> o, list |-> l, page |-> p, ret |-> r, found |-> FALSE, where |-> "",
     from |-> NULL]

\* the list the preceding call took page p out of, if it did (NULL if not)
TakenFrom(p) ==
    IF \/ lcall.op = "pop" /\ lcall.ret = p
       \/ lcall.op = "remove_from_list" /\ lcall.page = p
    THEN lcall.list ELSE NULL

NoIter == [live |-> FALSE, list |-> NULL, head |-> NULL, yielded |-> <<>>,
           last |-> NULL, nones |-> 0, mutated |-> FALSE]

\* where page p is linked: at the head, at the tail, between two pages, or
\* alone
Position(p) ==
    IF prev[p] = NULL
    THEN (IF next[p] = NULL THEN "only" ELSE "head")
    ELSE (IF next[p] = NULL THEN "tail" ELSE "interior")

\* The iterator the caller holds after a structural change of list l:
\* ObjectPageIterMut keeps a raw link and does not borrow the list, so the
\* list calls stay callable while it lives; mutated records that the list
\* it was made for has changed since; yielded and nones record the results
\* of next() for as long as it has not.
Touch(l) ==
    IF iter.live /\ iter.list = l
    THEN [iter EXCEPT !.mutated = TRUE, !.yielded = <<>>, !.nones = 0]
    ELSE iter

\* list.insert_front(p) with a page that is linked nowhere
InsertFront(l, p) ==
    /\ Unlinked(p)
    /\ Install(l, insert_front(ListOf(l), p))
    /\ lcall' = [LCall("insert_front", l, p, NULL) EXCEPT !.from = TakenFrom(p)]
    /\ inserted' = [inserted EXCEPT ![l] = Append(@, p)]
    /\ iter' = Touch(l)
    /\ UNCHANGED <<pagevars, regionvars>>

\* list.remove_from_list(p) with a page linked in this list
RemoveFromList(l, p) ==
    /\ p \in Reachable(l)
    /\ Install(l, remove_from_list(ListOf(l), p))
    /\ lcall' = [LCall("remove_from_list", l, p, NULL) EXCEPT !.where = Position(p)]
    /\ inserted' = [inserted EXCEPT ![l] = Without(@, p)]
    /\ iter' = Touch(l)
    /\ UNCHANGED <<pagevars, regionvars>>

\* list.pop()
Pop(l) ==
    /\ IF head[l] = NULL
       THEN UNCHANGED <<head, elements, next, prev, iter>>
       ELSE Install(l, pop(ListOf(l))) /\ iter' = Touch(l)
    /\ lcall' = LCall("pop", l, NULL, head[l])
    /\ inserted' = [inserted EXCEPT ![l] = Without(@, head[l])]
    /\ UNCHANGED <<pagevars, regionvars>>

\* list.contains(s), s the address of a page of the pool or null
Contains(l, s) ==
    /\ lcall' = [LCall("contains", l, s, NULL) EXCEPT !.found = contains(l, s)]
    /\ UNCHANGED <<head, elements, next, prev, inserted, iter>>
    /\ UNCHANGED <<pagevars, regionvars>>

\* list.iter_mut(): an iterator whose link is the head of the list. It
\* replaces the iterator the caller held, if any.
IterMut(l) ==
    /\ iter' = [NoIter EXCEPT !.live = TRUE, !.list = l, !.head = head[l]]
    /\ lcall' = LCall("iter_mut", l, NULL, NULL)
    /\ UNCHANGED <<head, elements, next, prev, inserted>>
    /\ UNCHANGED <<pagevars, regionvars>>

\* iter.next() on the iterator the caller holds, in whatever state the list
\* calls made since iter_mut have left the links
IterNext ==
    /\ iter.live
    /\ iter.nones < MaxExtraCalls
    /\ LET r == iter_next(next, iter.head) IN
       iter' = [iter EXCEPT !.head = r.head,
                            !.last = r.item,
                            !.yielded = IF r.item = NULL \/ iter.mutated
                                        THEN @ ELSE Append(@, r.item),
                            !.nones = IF r.item = NULL /\ ~iter.mutated
                                      THEN @ + 1 ELSE @]
    /\ UNCHANGED <<head, elements, next, prev, lcall, inserted>>
    /\ UNCHANGED <<pagevars, regionvars>>

ListInit ==
    /\ head = [l \in Lists |-> NULL]
    /\ elements = [l \in Lists |-> 0]
    /\ next = [p \in Pages |-> NULL]
    /\ prev = [p \in Pages |-> NULL]
    /\ lcall = LCall("new", NULL, NULL, NULL)
    /\ inserted = [l \in Lists |-> <<>>]
    /\ iter = NoIter

(***************************************************************************)
(*                     Bitfield: impl Bitfield for [u64]                   *)
(***************************************************************************)
Words == 0..(NWORDS - 1)
Bits == 0..(WORD_BITS - 1)
\* u64::max_value(): every bit of the word set
u64_max == Bits
\* the number of slots the bitfield tracks: self.len() * 64
NSLOTS == NWORDS * WORD_BITS

Layout(s, a) == [size |-> s, align |-> a]

\* Bitfield::is_allocated
is_allocated(bf, idx) == (idx % WORD_BITS) \in bf[idx \div WORD_BITS]

\* Bitfield::set_bit
set_bit(bf, idx) ==
    [bf EXCEPT ![idx \div WORD_BITS] = @ \cup {idx % WORD_BITS}]

\* Bitfield::clear_bit
clear_bit(bf, idx) ==
    [bf EXCEPT ![idx \div WORD_BITS] = @ \ {idx % WORD_BITS}]

\* for idx in from..to { self.clear_bit(idx) }: the calls of clear_bit in
\* increasing order of idx. The range is halved, and the lower half is
\* computed before the upper half is entered (the test on its domain
\* always succeeds), to keep the evaluation shallow.
RECURSIVE clear_loop(_, _, _)
clear_loop(bf, from, to) ==
    IF from >= to THEN bf
    ELSE IF to = from + 1 THEN clear_bit(bf, from)
    ELSE LET mid == (from + to) \div 2
             lower == clear_loop(bf, from, mid)
         IN  IF DOMAIN lower = DOMAIN bf THEN clear_loop(lower, mid, to) ELSE bf

\* initialize with a fault: the words are not set to all ones first
initialize_keeps_old(bf, for_size, capacity) ==
    clear_loop(bf, 0, Min(capacity \div for_size, NWORDS * WORD_BITS))

\* Bitfield::initialize
initialize(bf, for_size, capacity) ==
    LET all_set == [w \in DOMAIN bf |-> u64_max]
        relevant_bits == Min(capacity \div for_size, NSLOTS)
    IN  clear_loop(all_set, 0, relevant_bits)

\* first_free_bit with a fault: the highest clear bit (leading for trailing
\* zeros)
last_free_bit(bitval) ==
    CHOOSE b \in (0..(WORD_BITS - 1)) \ bitval :
        \A c \in (0..(WORD_BITS - 1)) \ bitval : b >= c

\* (!bitval).trailing_zeros(): the lowest clear bit of a word that is not
\* all ones
first_free_bit(bitval) ==
    CHOOSE b \in Bits \ bitval : \A c \in Bits \ bitval : b <= c

None == [kind |-> "None", idx |-> 0, addr |-> 0]
Some(i, a) == [kind |-> "Some", idx |-> i, addr |-> a]
Overflow == [kind |-> "panic: attempt to subtract with overflow", idx |-> 0, addr |-> 0]

\* the loop of Bitfield::first_fit from word base_idx on
RECURSIVE first_fit_from(_, _, _, _, _, _)
first_fit_from(bf, base_idx, base, layout, page_size, metadata_size) ==
    IF base_idx >= NWORDS THEN None
    ELSE
    LET bitval == bf[base_idx] IN
    IF bitval = u64_max
    THEN first_fit_from(bf, base_idx + 1, base, layout, page_size, metadata_size)
    ELSE
    LET first_free == first_free_bit(bitval)
        idx == base_idx * WORD_BITS + first_free
        offset == idx * layout.size
        \* page_size - metadata_size - layout.size() in usize: it overflows
        \* when the layout is larger than the data region. With overflow
        \* checks the subtraction panics; without them it wraps to
        \* 2^64 - (layout.size - (page_size - metadata_size)), which every
        \* offset of the model is below.
        underflow == layout.size > page_size - metadata_size
        offset_inside_data_area ==
            IF underflow THEN TRUE
            ELSE offset <= page_size - metadata_size - layout.size
        addr == base + offset
        alignment_ok == addr % layout.align = 0
        block_is_free == first_free \notin bitval
    IN  IF underflow /\ overflow_checks THEN Overflow
        ELSE IF ~offset_inside_data_area THEN None
        ELSE IF alignment_ok /\ block_is_free THEN Some(idx, addr)
        ELSE first_fit_from(bf, base_idx + 1, base, layout, page_size, metadata_size)

\* Bitfield::first_fit
first_fit(bf, base, layout, page_size, metadata_size) ==
    first_fit_from(bf, 0, base, layout, page_size, metadata_size)

(***************************************************************************)
(*                  AllocablePage, for ObjectPage8k                        *)
(***************************************************************************)
\* ObjectPage8k::buffer_size
buffer_size == SIZE - METADATA_SIZE

\* the bitfield of ObjectPage8k::new and of clear_metadata: [0; 8]
zeroed == [w \in Words |-> {}]

\* AllocablePage::first_fit
page_first_fit(bf, layout) == first_fit(bf, base_addr, layout, SIZE, METADATA_SIZE)

Result(o, a, bf) == [outcome |-> o, addr |-> a, bitfield |-> bf]

\* allocate with a fault: the slot returned is not marked allocated.
allocate_nomark(bf, layout) ==
    LET r == page_first_fit(bf, layout) IN
    IF r.kind = "Some" THEN Result("Some", r.addr, bf)
    ELSE IF r.kind = "None" THEN Result("Null", NULL, bf)
    ELSE Result(r.kind, NULL, bf)

\* AllocablePage::allocate: what it returns and the bitfield it leaves
allocate(bf, layout) ==
    LET r == page_first_fit(bf, layout) IN
    IF r.kind = "Some" THEN Result("Some", r.addr, set_bit(bf, r.idx))
    ELSE IF r.kind = "None" THEN Result("Null", NULL, bf)
    ELSE Result(r.kind, NULL, bf)

\* deallocate with a fault: the slot is not asserted to be allocated
deallocate_unchecked_bit(bf, ptr, layout) ==
    LET page_offset == ptr % SIZE
        idx == page_offset \div layout.size
    IN  IF layout.size = 0
        THEN Result("panic: remainder with a divisor of zero", NULL, bf)
        ELSE IF page_offset % layout.size # 0
        THEN Result("panic: assertion failed: page_offset % layout.size() == 0", NULL, bf)
        ELSE IF idx >= NWORDS * WORD_BITS
        THEN Result("panic: index out of bounds", NULL, bf)
        ELSE Result("Ok", NULL, clear_bit(bf, idx))

\* deallocate with a fault: the offset is not asserted to be a multiple of
\* the object size
deallocate_unchecked_offset(bf, ptr, layout) ==
    LET page_offset == ptr % SIZE
        idx == page_offset \div layout.size
    IN  IF layout.size = 0
        THEN Result("panic: remainder with a divisor of zero", NULL, bf)
        ELSE IF idx >= NWORDS * WORD_BITS
        THEN Result("panic: index out of bounds", NULL, bf)
        ELSE IF ~is_allocated(bf, idx)
        THEN Result("panic: not marked allocated?", NULL, bf)
        ELSE Result("Ok", NULL, clear_bit(bf, idx))

\* AllocablePage::deallocate: what it returns and the bitfield it leaves
deallocate(bf, ptr, layout) ==
    LET page_offset == ptr % SIZE      \* ptr & (SIZE - 1)
        idx == page_offset \div layout.size
    IN  IF layout.size = 0
        THEN Result("panic: remainder with a divisor of zero", NULL, bf)
        ELSE IF page_offset % layout.size # 0
        THEN Result("panic: assertion failed: page_offset % layout.size() == 0", NULL, bf)
        ELSE IF idx >= NSLOTS
        THEN Result("panic: index out of bounds", NULL, bf)
        ELSE IF ~is_allocated(bf, idx)
        THEN Result("panic: not marked allocated?", NULL, bf)
        ELSE Result("Ok", NULL, clear_bit(bf, idx))

Panicked(o) == o \notin {"Some", "Null", "Ok", "done", "true", "false"}

(* --------------------- inputs of the tracker runs ---------------------- *)
\* page addresses
BaseAddrs == {SIZE, 2 * SIZE}
\* (for_size, capacity) given to initialize
InitArgs == {<<64, buffer_size>>, <<8, buffer_size>>, <<4000, buffer_size>>,
             <<4000, 100>>, <<64, 0>>}
\* layouts given to allocate and deallocate
Layouts == {Layout(8, 8), Layout(8, 16), Layout(64, 8), Layout(4000, 8),
            Layout(SIZE, 8)}
\* in-page offsets of the pointers given to deallocate
PtrOffsets == {0, 8, 12, 4000, 8000, 8064}

NoCall == [op |-> "new", size |-> 0, align |-> 0, ptr |-> NULL, capacity |-> 0,
           relevant_bits |-> 0,
           outcome |-> "done", addr |-> NULL, before |-> zeroed]

Record(c, r, same) ==
    /\ bitfield' = r.bitfield
    /\ halted' = Panicked(r.outcome)
    /\ call' = [c EXCEPT !.outcome = r.outcome, !.addr = r.addr, !.before = bitfield]
    /\ prevcall' = call
    /\ inited' = [inited EXCEPT !.same_size = @ /\ same]
    /\ nops' = nops + 1
    /\ live' = IF c.op = "allocate" /\ r.outcome = "Some" THEN live \cup {r.addr}
               ELSE IF c.op = "deallocate" /\ r.outcome = "Ok" THEN live \ {c.ptr}
               ELSE live
    /\ UNCHANGED <<heap_id, base_addr, overflow_checks>>
    /\ UNCHANGED <<listvars, regionvars>>

\* page.bitfield_mut().initialize(for_size, capacity)
Initialize(for_size, capacity) ==
    /\ ~halted
    /\ bitfield' = initialize(bitfield, for_size, capacity)
    /\ call' = [NoCall EXCEPT !.op = "initialize", !.size = for_size,
                              !.capacity = capacity, !.before = bitfield]
    /\ prevcall' = call
    /\ inited' = [valid |-> TRUE, for_size |-> for_size, capacity |-> capacity,
                  same_size |-> TRUE]
    /\ nops' = nops + 1
    /\ UNCHANGED <<heap_id, base_addr, overflow_checks, halted, live>>
    /\ UNCHANGED <<listvars, regionvars>>

\* page.allocate(layout)
Allocate(layout) ==
    /\ ~halted
    /\ Record([NoCall EXCEPT !.op = "allocate", !.size = layout.size,
                             !.align = layout.align],
              allocate(bitfield, layout),
              layout.size = inited.for_size)

\* page.deallocate(ptr, layout)
Deallocate(ptr, layout) ==
    /\ ~halted
    /\ Record([NoCall EXCEPT !.op = "deallocate", !.size = layout.size,
                             !.align = layout.align, !.ptr = ptr],
              deallocate(bitfield, ptr, layout),
              layout.size = inited.for_size)

\* Bitfield::is_full: no word differs from u64::max_value()
is_full(bf) == Cardinality({w \in Words : bf[w] # u64_max}) = 0

\* all_free with a fault: the last relevant word is compared as a whole,
\* without the mask of the bits below relevant_bits.
RECURSIVE all_free_whole_word(_, _, _)
all_free_whole_word(bf, idx, relevant_bits) ==
    IF idx = NWORDS THEN TRUE
    ELSE IF relevant_bits >= idx * WORD_BITS /\ relevant_bits < (idx + 1) * WORD_BITS
         THEN bf[idx] = {}
         ELSE IF bf[idx] = {}
              THEN all_free_whole_word(bf, idx + 1, relevant_bits)
              ELSE FALSE

\* Bitfield::all_free, from word idx on: the word whose bit range holds
\* relevant_bits is checked under free_mask = (1 << k) - 1 and decides; every
\* word before it has to be zero; past the last word the answer is true.
RECURSIVE all_free(_, _, _)
all_free(bf, idx, relevant_bits) ==
    IF idx = NWORDS THEN TRUE
    ELSE IF relevant_bits >= idx * WORD_BITS /\ relevant_bits < (idx + 1) * WORD_BITS
         THEN LET bits_that_should_be_free == relevant_bits - idx * WORD_BITS
                  free_mask == {b \in Bits : b < bits_that_should_be_free}
              IN  (free_mask \cap bf[idx]) = {}
         ELSE IF bf[idx] = {}
              THEN all_free(bf, idx + 1, relevant_bits)
              ELSE FALSE

\* a bool as recorded in a call's outcome
Bool(b) == IF b THEN "true" ELSE "false"

\* page.is_full()
IsFull ==
    /\ ~halted
    /\ Record([NoCall EXCEPT !.op = "is_full"],
              Result(Bool(is_full(bitfield)), NULL, bitfield), TRUE)

\* page.is_empty(relevant_bits)
IsEmpty(relevant_bits) ==
    /\ ~halted
    /\ Record([NoCall EXCEPT !.op = "is_empty", !.relevant_bits = relevant_bits],
              Result(Bool(all_free(bitfield, 0, relevant_bits)), NULL, bitfield), TRUE)

\* the pointers deallocate is called with: chosen offsets into the page,
\* and the address the last allocate returned
Pointers ==
    {base_addr + o : o \in PtrOffsets}
        \cup (IF call.op = "allocate" /\ call.outcome = "Some" THEN {call.addr} ELSE {})

\* the tag the pages of the lists were built with
BuiltTag == 1

\* ObjectPage8k::new(mp, heap_id), at some SIZE-aligned address, in a build
\* with or without overflow checks
PageInit ==
    /\ heap_id = [p \in Pages |-> BuiltTag]
    /\ base_addr \in BaseAddrs
    /\ overflow_checks \in BOOLEAN
    /\ bitfield = zeroed
    /\ halted = FALSE
    /\ call = NoCall
    /\ prevcall = NoCall
    /\ inited = [valid |-> FALSE, for_size |-> 0, capacity |-> 0, same_size |-> FALSE]
    /\ nops = 0
    /\ live = {}

\* a run of Spec makes at most MaxOps calls
More == nops < MaxOps

(* ---------------- one page allocated from until it is full ------------- *)
\* object sizes of the sequential runs
SeqSizes == {8, 64, 1000, 4000, 4048, SIZE}
\* alignments of the sequential runs (those dividing the size are used)
SeqAligns == {1, 8, 64}

SeqFull == Min(inited.capacity \div inited.for_size, NSLOTS)

\* the first call of a sequential run: initialize for the data region
SeqInitialize ==
    /\ nops = 0
    /\ \E s \in SeqSizes : Initialize(s, buffer_size)

\* the following calls: allocate with one layout of the initialized size
SeqAllocate ==
    /\ nops >= 1
    /\ nops < 1 + SeqFull + MaxExtraCalls
    /\ \E a \in SeqAligns :
         /\ inited.for_size % a = 0
         /\ call.op = "allocate" => a = call.align
         /\ Allocate(Layout(inited.for_size, a))

(* ------------- one page allocated from with mixed alignments ----------- *)
\* alignments of the mixed runs: the size itself and twice the size
MixAligns == {8, 16}

\* the first call of a mixed run: initialize for 8-byte objects
MixInitialize ==
    /\ nops = 0
    /\ Initialize(8, buffer_size)

\* the following calls: allocate 8 bytes under any of the alignments
MixAllocate ==
    /\ nops >= 1
    /\ nops < MaxMixCalls
    /\ \E a \in MixAligns : Allocate(Layout(inited.for_size, a))

\* or ask whether the page is full
MixIsFull ==
    /\ nops >= 1
    /\ nops < MaxMixCalls
    /\ call.op # "is_full"
    /\ IsFull

(* ------ one page, one layout: allocate and deallocate live objects ----- *)
\* the layouts of these runs: the alignment divides the size or not
LiveLayouts == {Layout(8, 8), Layout(8, 16), Layout(64, 64), Layout(1000, 8),
                Layout(4000, 8), Layout(4048, 16), Layout(SIZE, 8)}

\* the layout of the run: the one the page was initialized and used with
LiveLayout(l) ==
    /\ l.size = inited.for_size
    /\ call.op \in {"allocate", "deallocate"} => l.align = call.align

\* the first call: initialize for the size of one of the layouts
LiveInitialize ==
    /\ nops = 0
    /\ \E l \in LiveLayouts : Initialize(l.size, buffer_size)

\* allocate with the layout of the run
LiveAllocate ==
    /\ nops >= 1
    /\ nops < MaxLiveCalls
    /\ \E l \in LiveLayouts : LiveLayout(l) /\ Allocate(l)

\* deallocate, with the layout of the run, of an address that is live
LiveDeallocate ==
    /\ nops >= 2
    /\ nops < MaxLiveCalls
    /\ \E l \in LiveLayouts, ptr \in live : LiveLayout(l) /\ Deallocate(ptr, l)

(* ------------------- is_empty on chosen tracker states ------------------ *)
\* the slots from which on a state has every bit set (NSLOTS: none), as
\* initialize leaves them for capacity / for_size relevant slots
PadFrom == {0, 1, 63, 64, 65, 126, 128, 511, NSLOTS}
\* one more slot that is set, as allocate leaves it (NSLOTS: none)
SetSlot == {0, 1, 62, 63, 64, 65, 127, 128, 510, 511, NSLOTS}

\* the bitfield in which exactly the slots of S are set
FromSlots(S) == [w \in Words |-> {b \in Bits : w * WORD_BITS + b \in S}]

TrackerStates ==
    {FromSlots({k \in 0..(NSLOTS - 1) : k >= p \/ k = s}) : p \in PadFrom, s \in SetSlot}

\* one is_empty call with any relevant_bits up to the number of slots
DoIsEmpty == \E n \in 0..NSLOTS : nops = 0 /\ IsEmpty(n)

(***************************************************************************)
(*        ObjectPage8k::new and retrieve_mapped_pages (MappedPages)        *)
(***************************************************************************)
\* A MappedPages handle, as far as new reads it: its identity, its
\* start_address().value(), flags().is_writable() and size_in_bytes().
Region(i, s, w, n) == [id |-> i, start |-> s, writable |-> w, size |-> n]

\* MappedPages::empty(): the placeholder that maps nothing
EMPTY == Region(0, 0, FALSE, 0)

\* the regions the caller starts with: two that new accepts, and regions
\* that are misaligned, read-only, too small, too large, or several of these
Regions == {Region(1, SIZE, TRUE, SIZE),
            Region(2, 2 * SIZE, TRUE, SIZE),
            Region(3, SIZE + SIZE \div 2, TRUE, SIZE),
            Region(4, 3 * SIZE, FALSE, SIZE),
            Region(5, 4 * SIZE, TRUE, SIZE \div 2),
            Region(6, 5 * SIZE, TRUE, 2 * SIZE),
            Region(7, SIZE \div 2, FALSE, SIZE \div 2)}
\* the heap_id tags given to new
HeapIds == {0, 1}
Frames == 1..NFrames

\* the fields of an ObjectPage8k; built is FALSE where no page was constructed
PageObj(b, m, h, nx, pv, bf) ==
    [built |-> b, mp |-> m, heap_id |-> h, next |-> nx, prev |-> pv, bitfield |-> bf]
NoPage == PageObj(FALSE, EMPTY, 0, NULL, NULL, [w \in 0..(NWORDS - 1) |-> {}])

Err(msg) == [ok |-> FALSE, err |-> msg, page |-> NoPage]
Ok(page) == [ok |-> TRUE, err |-> "", page |-> page]

\* new with a fault: the size of the region is not checked
new_unchecked_size(mp, tag) ==
    IF mp.start % SIZE # 0
    THEN Err("The mapped pages for the heap are not aligned at 8k bytes")
    ELSE IF ~mp.writable
    THEN Err("Trying to create an allocable page but MappedPages were not writable")
    ELSE Ok(PageObj(TRUE, mp, tag, NULL, NULL, [w \in 0..(NWORDS - 1) |-> {}]))

\* ObjectPage8k::new(mp, heap_id), tag being the heap_id given
new(mp, tag) ==
    IF mp.start % SIZE # 0
    THEN Err("The mapped pages for the heap are not aligned at 8k bytes")
    ELSE IF ~mp.writable
    THEN Err("Trying to create an allocable page but MappedPages were not writable")
    ELSE IF SIZE # mp.size
    THEN Err("MappedPages size does not equal allocable page size")
    ELSE Ok(PageObj(TRUE, mp, tag, NULL, NULL, zeroed))

\* retrieve_mapped_pages with a fault: the handle is copied out and stays
\* in the page
retrieve_mapped_pages_copy(page) == [ret |-> page.mp, page |-> page]

\* ObjectPage8k::retrieve_mapped_pages: the handle returned and the page left
retrieve_mapped_pages(page) ==
    \* let mut mp = MappedPages::empty(); swap(&mut self.mp, &mut mp); mp
    [ret |-> page.mp, page |-> [page EXCEPT !.mp = EMPTY]]

NoRegionCall == [op |-> "none", frame |-> 0, region |-> EMPTY, heap_id |-> 0,
                 ok |-> TRUE, err |-> "", ret |-> EMPTY, before |-> NoPage]

\* ObjectPage8k::new(r, tag) with a handle the caller holds, the page built
\* at place f. The handle is moved into the call: it ends in the page, or
\* is dropped with the error.
New(f, r, tag) ==
    /\ r \in caller
    /\ ~pageobj[f].built
    /\ LET res == new(r, tag) IN
       /\ pageobj' = IF res.ok THEN [pageobj EXCEPT ![f] = res.page] ELSE pageobj
       /\ rcall' = [NoRegionCall EXCEPT !.op = "new", !.frame = f, !.region = r,
                                        !.heap_id = tag, !.ok = res.ok, !.err = res.err,
                                        !.before = pageobj[f]]
    /\ caller' = caller \ {r}
    /\ UNCHANGED <<listvars, pagevars>>

\* page.retrieve_mapped_pages() on the page at place f: the caller receives
\* what it returns
Retrieve(f) ==
    /\ pageobj[f].built
    /\ LET res == retrieve_mapped_pages(pageobj[f]) IN
       /\ pageobj' = [pageobj EXCEPT ![f] = res.page]
       /\ caller' = caller \cup (IF res.ret = EMPTY THEN {} ELSE {res.ret})
       /\ rcall' = [NoRegionCall EXCEPT !.op = "retrieve_mapped_pages", !.frame = f,
                                        !.ret = res.ret, !.before = pageobj[f]]
    /\ UNCHANGED <<listvars, pagevars>>

(* ------------------------------ clear_metadata ------------------------ *)
\* ObjectPage8k::clear_metadata: the tag, both links and the bitfield are
\* reset; the region handle stays in the page
clear_metadata(page) ==
    [page EXCEPT !.heap_id = 0, !.next = NULL, !.prev = NULL, !.bitfield = zeroed]

\* the page of the lists whose tracker the tracker operations act on
TrackedPage == 1

\* page p of the lists as an ObjectPage8k: its tag, its links and, for the
\* tracked page, its bitfield
PageAt(p) ==
    PageObj(TRUE, EMPTY, heap_id[p], next[p], prev[p],
            IF p = TrackedPage THEN bitfield ELSE zeroed)

\* page.clear_metadata() on page p of the lists, linked or not: the page's
\* own fields are written, no list and no neighbour is told
ClearMetadata(p) ==
    /\ ~halted
    /\ LET page == clear_metadata(PageAt(p)) IN
       /\ heap_id' = [heap_id EXCEPT ![p] = page.heap_id]
       /\ next' = [next EXCEPT ![p] = page.next]
       /\ prev' = [prev EXCEPT ![p] = page.prev]
       /\ bitfield' = IF p = TrackedPage THEN page.bitfield ELSE bitfield
    /\ IF p = TrackedPage
       THEN /\ call' = [NoCall EXCEPT !.op = "clear_metadata", !.before = bitfield]
            /\ prevcall' = call
            /\ inited' = [inited EXCEPT !.valid = FALSE, !.same_size = FALSE]
       ELSE UNCHANGED <<call, prevcall, inited>>
    /\ nops' = nops + 1
    /\ iter' = IF iter.live /\ p \in Reachable(iter.list) THEN Touch(iter.list) ELSE iter
    /\ UNCHANGED <<head, elements, lcall, inserted>>
    /\ UNCHANGED <<base_addr, overflow_checks, halted, live, regionvars>>

\* page.clear_metadata() on the page built at place f
FrameClearMetadata(f) ==
    /\ pageobj[f].built
    /\ pageobj' = [pageobj EXCEPT ![f] = clear_metadata(pageobj[f])]
    /\ rcall' = [NoRegionCall EXCEPT !.op = "clear_metadata", !.frame = f,
                                     !.before = pageobj[f]]
    /\ UNCHANGED <<caller, listvars, pagevars>>

RegionInit ==
    /\ pageobj = [f \in Frames |-> NoPage]
    /\ caller = Regions
    /\ rcall = NoRegionCall

(***************************************************************************)
(*                            specifications                               *)
(***************************************************************************)
Init == ListInit /\ PageInit /\ RegionInit

\* the tracker operations of one page
DoInitialize == \E a \in InitArgs : More /\ Initialize(a[1], a[2])
DoAllocate == \E l \in Layouts : More /\ Allocate(l)
DoDeallocate == \E p \in Pointers, l \in Layouts : More /\ Deallocate(p, l)
DoClearMetadata == More /\ ClearMetadata(TrackedPage)
Next == DoInitialize \/ DoAllocate \/ DoDeallocate \/ DoClearMetadata
Spec == Init /\ [][Next]_vars

\* the PageList operations
DoInsertFront == \E l \in Lists, p \in Pages : InsertFront(l, p)
DoRemoveFromList == \E l \in Lists, p \in Pages : RemoveFromList(l, p)
DoPop == \E l \in Lists : Pop(l)
DoContains == \E l \in Lists, s \in Pages \cup {NULL} : Contains(l, s)
ListNext == DoInsertFront \/ DoRemoveFromList \/ DoPop \/ DoContains
\* the list and region operations read neither the page's address nor the
\* build mode, so their specifications start from one choice of both
StructInit == Init /\ base_addr = SIZE /\ overflow_checks
ListSpec == StructInit /\ [][ListNext]_vars

\* the list operations on the first NIterLists lists and NIterPages pages,
\* with an iterator made and advanced at any point between them
IterLists == 1..NIterLists
IterPages == 1..NIterPages
IterInsertFront == \E l \in IterLists, p \in IterPages : InsertFront(l, p)
IterRemoveFromList == \E l \in IterLists, p \in IterPages : RemoveFromList(l, p)
IterPop == \E l \in IterLists : Pop(l)
IterContains == \E l \in IterLists, s \in IterPages : Contains(l, s)
IterIterMut == \E l \in IterLists : IterMut(l)
IterNextStep ==
    \/ IterInsertFront \/ IterRemoveFromList \/ IterPop \/ IterContains
    \/ IterIterMut \/ IterNext
IterSpec == StructInit /\ [][IterNextStep]_vars

\* lists built by the list operations on these lists and pages, then
\* clear_metadata called on any of the pages, linked or not, at most
\* MaxClears times, and the lists looked at with contains. Structural calls
\* on a list after one of its pages was cleared follow stale links; they
\* are left out of these runs.
DoClearAnyPage == \E p \in IterPages : nops < MaxClears /\ ClearMetadata(p)
ClearNext ==
    \/ nops = 0 /\ (IterInsertFront \/ IterRemoveFromList \/ IterPop)
    \/ IterContains
    \/ DoClearAnyPage
ClearSpec == StructInit /\ [][ClearNext]_vars

\* initialize, then allocate until full
SeqNext == SeqInitialize \/ SeqAllocate
SeqSpec == Init /\ [][SeqNext]_vars

\* initialize for 8 bytes, then allocate under mixed alignments and ask
\* is_full
MixNext == MixInitialize \/ MixAllocate \/ MixIsFull
MixSpec == Init /\ [][MixNext]_vars

\* initialize, then allocate and deallocate live addresses with one layout
LiveNext == LiveInitialize \/ LiveAllocate \/ LiveDeallocate
LiveSpec == Init /\ [][LiveNext]_vars

\* a page whose tracker is in one of the chosen states
TrackerInit ==
    /\ ListInit /\ RegionInit
    /\ heap_id = [p \in Pages |-> BuiltTag]
    /\ base_addr = SIZE
    /\ overflow_checks = TRUE
    /\ bitfield \in TrackerStates
    /\ halted = FALSE
    /\ call = NoCall
    /\ prevcall = NoCall
    /\ inited = [valid |-> FALSE, for_size |-> 0, capacity |-> 0, same_size |-> FALSE]
    /\ nops = 0
    /\ live = {}

\* is_empty applied to the chosen tracker states
EmptyNext == DoIsEmpty
EmptySpec == TrackerInit /\ [][EmptyNext]_vars

\* construction of pages from regions and retrieval of the regions
DoNew == \E f \in Frames, r \in Regions, tag \in HeapIds : New(f, r, tag)
DoRetrieve == \E f \in Frames : Retrieve(f)
DoFrameClearMetadata == \E f \in Frames : FrameClearMetadata(f)
RegionNext == DoNew \/ DoRetrieve \/ DoFrameClearMetadata
RegionSpec == StructInit /\ [][RegionNext]_vars

(***************************************************************************)
(*                              properties                                 *)
(***************************************************************************)
\* clear_metadata on a linked page cuts the list behind that page and
\* leaves head and elements as they were: in ClearSpec a list never has more
\* reachable pages than it counts, and it can have fewer.
ClearOnlyCuts == \A l \in Lists : Cardinality(Reachable(l)) <= elements[l]
ClearCutsList ==
    /\ nops >= 1
    /\ \E l \in Lists : Cardinality(Reachable(l)) < elements[l]

Slots == 0..(NSLOTS - 1)

\* the number of slots initialize leaves free
relevant(for_size, capacity) == Min(capacity \div for_size, NSLOTS)

\* slot k holds an object of the layout inside the data region, at an
\* address the layout's alignment divides
InsideData(k, layout) == k * layout.size + layout.size <= buffer_size
Aligned(k, layout) == (base_addr + k * layout.size) % layout.align = 0

(* C1 (ListSpec): after any sequence of insert_front (of an unlinked page),
   remove_from_list (of a page of the list) and pop, the next chain from
   head ends, and elements is the number of pages on it. *)
C1_ElementsIsReachableCount ==
    \A l \in Lists :
        /\ Len(iter_mut(l)) <= NPages
        /\ elements[l] = Len(iter_mut(l))

\* a pop has just returned a page and left at least two pages linked
C1_Witness ==
    /\ lcall.op = "pop"
    /\ lcall.ret # NULL
    /\ elements[lcall.list] >= 2

(* C2 (ListSpec): in every reachable list state the head's prev is none,
   the last page's next is none, and the prev of the page after P is P. *)
C2_DoublyLinked ==
    \A l \in Lists :
        LET pages == iter_mut(l) IN
        /\ head[l] # NULL => prev[head[l]] = NULL
        /\ pages # <<>> => next[pages[Len(pages)]] = NULL
        /\ \A i \in 1..Len(pages) :
              next[pages[i]] # NULL => prev[next[pages[i]]] = pages[i]

\* a page has just been removed and at least two pages stay linked
C2_Witness ==
    /\ lcall.op = "remove_from_list"
    /\ elements[lcall.list] >= 2
    /\ head[lcall.list] # NULL
    /\ next[head[lcall.list]] # NULL

(* C3 (Spec), the claim as stated: after initialize(object_size, capacity),
   through any allocate and deallocate calls with that object size, every
   slot with index >= min(capacity / object_size, 512) is marked
   allocated. *)
C3_PaddingStaysAllocated ==
    (inited.valid /\ inited.same_size) =>
        \A idx \in Slots :
            idx >= relevant(inited.for_size, inited.capacity)
                => is_allocated(bitfield, idx)

(* C4 (Spec), the claim as stated: when allocate returns a non-null
   address, deallocate of that address with the same layout right after
   returns Ok and leaves the tracker as it was before the allocate. *)
C4_RoundTrip ==
    ( /\ call.op = "deallocate"
      /\ prevcall.op = "allocate"
      /\ prevcall.outcome = "Some"
      /\ call.ptr = prevcall.addr
      /\ call.size = prevcall.size
      /\ call.align = prevcall.align )
    => (call.outcome = "Ok" /\ bitfield = prevcall.before)

(* C5 (Spec), the claim as stated: for every tracker state and layout, if
   slot k is inside the data region, free and aligned, and every slot
   below k is allocated or misaligned, first_fit returns
   (k, base + k * size). *)
C5_LowestFit ==
    \A layout \in Layouts :
        LET free_aligned == {j \in Slots : ~is_allocated(bitfield, j) /\ Aligned(j, layout)}
        IN  \A k \in free_aligned :
                ((\A j \in free_aligned : k <= j) /\ InsideData(k, layout))
                    => page_first_fit(bitfield, layout)
                           = Some(k, base_addr + k * layout.size)

(* C6 (Spec): whatever the tracker held, after initialize(object_size,
   capacity) slot idx reports free exactly when
   idx < min(capacity / object_size, 512). *)
C6_InitializeFreesRelevant ==
    call.op = "initialize" =>
        \A idx \in Slots :
            is_allocated(bitfield, idx) <=> idx >= relevant(call.size, call.capacity)

\* initialize has run over a tracker that held allocations, and leaves
\* some slots free and some allocated
C6_Witness ==
    /\ call.op = "initialize"
    /\ call.before # zeroed
    /\ relevant(call.size, call.capacity) \in 1..(NSLOTS - 1)

(* C7 (SeqSpec): after initialize(s, data-region size), the i-th allocate
   (from 0) of a layout of size s whose alignment divides s returns
   base + i * s while i < min(capacity / s, 512), and null from then on. *)
C7_SequentialAllocation ==
    call.op = "allocate" =>
        LET i == nops - 2
            n == relevant(inited.for_size, inited.capacity)
        IN  IF i < n
            THEN call.outcome = "Some" /\ call.addr = base_addr + i * call.size
            ELSE call.outcome = "Null" /\ call.addr = NULL

\* the 127th allocate of size 64 has returned null
C7_Witness ==
    /\ call.op = "allocate"
    /\ call.size = 64
    /\ inited.capacity = 8096
    /\ nops = 128
    /\ call.outcome = "Null"
    /\ prevcall.outcome = "Some"
    /\ prevcall.addr = base_addr + 125 * 64

(* C8 (Spec): a deallocate that repeats the preceding successful deallocate
   (same address, same layout) halts on the "not marked allocated"
   assertion and leaves the tracker unchanged. *)
C8_DoubleFreeHalts ==
    ( /\ call.op = "deallocate"
      /\ prevcall.op = "deallocate"
      /\ prevcall.outcome = "Ok"
      /\ call.ptr = prevcall.ptr
      /\ call.size = prevcall.size
      /\ call.align = prevcall.align )
    => ( /\ call.outcome = "panic: not marked allocated?"
         /\ halted
         /\ bitfield = call.before )

\* the same address has been deallocated twice in a row
C8_Witness ==
    /\ call.op = "deallocate"
    /\ prevcall.op = "deallocate"
    /\ prevcall.outcome = "Ok"
    /\ call.ptr = prevcall.ptr
    /\ call.size = prevcall.size
    /\ call.align = prevcall.align

(* C9 (Spec): deallocate of a pointer whose in-page offset is not a
   multiple of layout.size halts on the first assertion: nothing is
   returned and no bit of the tracker changes. *)
C9_MisalignedFreeHalts ==
    ( /\ call.op = "deallocate"
      /\ call.size > 0
      /\ (call.ptr % SIZE) % call.size # 0 )
    => ( /\ call.outcome = "panic: assertion failed: page_offset % layout.size() == 0"
         /\ halted
         /\ bitfield = call.before )

\* a misaligned pointer has been given to deallocate while the slot it
\* falls into was marked allocated
C9_Witness ==
    /\ call.op = "deallocate"
    /\ (call.ptr % SIZE) % call.size # 0
    /\ is_allocated(call.before, (call.ptr % SIZE) \div call.size)

(* C10 (Spec), the claim as stated: for every tracker state and layout with
   size > 0, when no free slot satisfies the layout, allocate returns null
   without halting and leaves the tracker unchanged. *)
C10_MissReturnsNull ==
    ( /\ call.op = "allocate"
      /\ call.size > 0
      /\ ~ \E k \in Slots :
              /\ ~is_allocated(call.before, k)
              /\ Aligned(k, Layout(call.size, call.align))
              /\ InsideData(k, Layout(call.size, call.align)) )
    => ( /\ call.outcome = "Null"
         /\ ~halted
         /\ bitfield = call.before )

(* C11 (RegionSpec): new(region, tag) returns an error and builds no page
   when the region's start is not a multiple of 8192, or it is not
   writable, or its size is not 8192; otherwise it returns a page holding
   that region and tag with both links none. It has no halting path. *)
C11_NewValidates ==
    rcall.op = "new" =>
        LET r == rcall.region
            rejected == r.start % 8192 # 0 \/ ~r.writable \/ r.size # 8192
            page == pageobj[rcall.frame]
        IN  IF rejected
            THEN ~rcall.ok /\ rcall.err # "" /\ page = rcall.before /\ ~page.built
            ELSE /\ rcall.ok
                 /\ page.built
                 /\ page.mp = r
                 /\ page.heap_id = rcall.heap_id
                 /\ page.next = NULL
                 /\ page.prev = NULL

\* new has rejected an aligned, writable region for its size alone
C11_Witness ==
    /\ rcall.op = "new"
    /\ ~rcall.ok
    /\ rcall.region.start % 8192 = 0
    /\ rcall.region.writable
    /\ rcall.region.size # 8192

(* C19 (RegionSpec): retrieve_mapped_pages returns the handle the page
   held and leaves the empty placeholder, so a second retrieve returns the
   placeholder; and every region a page was constructed with is held by
   exactly one of the pages and the caller. *)
C19_RegionHasOneHolder ==
    /\ rcall.op = "retrieve_mapped_pages" =>
          /\ rcall.ret = rcall.before.mp
          /\ pageobj[rcall.frame].mp = EMPTY
    /\ \A r \in Regions :
          LET holders == {f \in Frames : pageobj[f].built /\ pageobj[f].mp = r}
          IN  /\ Cardinality(holders) <= 1
              /\ holders # {} => r \notin caller
              /\ (r.start % 8192 = 0 /\ r.writable /\ r.size = 8192)
                    => (holders # {} \/ r \in caller)

\* a second retrieve on a page has returned the placeholder, the region
\* itself being with the caller
C19_Witness ==
    /\ rcall.op = "retrieve_mapped_pages"
    /\ rcall.before.built
    /\ rcall.before.mp = EMPTY
    /\ rcall.ret = EMPTY
    /\ \E r \in caller : r.id = 1

Reverse(seq) == [i \in 1..Len(seq) |-> seq[Len(seq) + 1 - i]]

NoDuplicates(seq) == \A i, j \in 1..Len(seq) : seq[i] = seq[j] => i = j

\* C12: iterating a list yields its linked pages in the reverse of the order
\* of their insert_front calls: the page inserted last comes first and the
\* page inserted first comes last, whatever was unlinked in between.
C12_ReverseInsertionOrder ==
    \A l \in Lists : iter_mut(l) = Reverse(inserted[l])

C12_Witness ==
    /\ lcall.op = "insert_front"
    /\ Len(inserted[lcall.list]) >= 3
    /\ \E i \in 1..2 : inserted[lcall.list][i] > inserted[lcall.list][i + 1]

\* C13: pop on a non-empty list returns the page that was the head, with both
\* of its links none; the page that followed it is the new head and has no
\* previous page; the count drops by one. pop on an empty list returns none
\* and changes nothing.
C13_Pop ==
    [][lcall'.op = "pop" =>
        LET l == lcall'.list IN
        IF head[l] # NULL
        THEN /\ lcall'.ret = head[l]
             /\ next'[head[l]] = NULL
             /\ prev'[head[l]] = NULL
             /\ head'[l] = next[head[l]]
             /\ head'[l] # NULL => prev'[head'[l]] = NULL
             /\ elements'[l] = elements[l] - 1
        ELSE /\ lcall'.ret = NULL
             /\ UNCHANGED <<head, elements, next, prev>>]_vars

C13_Witness ==
    /\ lcall.op = "pop"
    /\ lcall.ret # NULL
    /\ head[lcall.list] # NULL
    /\ elements[lcall.list] >= 2

\* C14: remove_from_list of a linked page, at the head, in the interior or at
\* the tail, leaves the other pages of the list in their order, takes the
\* page out of the iteration, sets both of its links to none, lowers the
\* count by one and leaves every other list as it was.
C14_RemoveFromList ==
    [][lcall'.op = "remove_from_list" =>
        LET l == lcall'.list
            p == lcall'.page
        IN  /\ iterate(next', head'[l], NPages + 1)
                 = Without(iterate(next, head[l], NPages + 1), p)
            /\ next'[p] = NULL
            /\ prev'[p] = NULL
            /\ elements'[l] = elements[l] - 1
            /\ \A m \in Lists \ {l} :
                 /\ iterate(next', head'[m], NPages + 1)
                      = iterate(next, head[m], NPages + 1)
                 /\ elements'[m] = elements[m]]_vars

C14_Witness ==
    /\ lcall.op = "remove_from_list"
    /\ lcall.where = "interior"
    /\ elements[lcall.list] >= 2

\* C15: an iterator over a list yields pages of the list, each at most once;
\* it yields none exactly when it has yielded as many pages as the list
\* counts, which are then all the linked pages; every later call yields none.
C15_IteratorTerminates ==
    (iter.live /\ ~iter.mutated) =>
        LET l == iter.list
            y == iter.yielded
        IN  /\ NoDuplicates(y)
            /\ Range(y) \subseteq Range(inserted[l])
            /\ Len(y) <= elements[l]
            /\ (iter.head = NULL) <=> (Len(y) = elements[l])
            /\ iter.head = NULL => Range(y) = Range(inserted[l])
            /\ iter.nones >= 1 => /\ iter.last = NULL
                                  /\ iter.head = NULL
                                  /\ Len(y) = elements[l]
            /\ (iter.nones = 0 /\ Len(y) > 0) => iter.last = y[Len(y)]

C15_Witness ==
    /\ iter.live
    /\ ~iter.mutated
    /\ Len(iter.yielded) >= 3
    /\ iter.nones >= 2

\* C16: contains(s) is true exactly when s is the address of a page linked
\* in the list; it is false for a page that was removed or popped and for an
\* unlinked page whose contents equal those of a linked page; the call
\* leaves the list as it was.
C16_Contains ==
    [][lcall'.op = "contains" =>
        /\ lcall'.found <=> (lcall'.page \in Range(inserted[lcall'.list]))
        /\ UNCHANGED <<head, elements, next, prev>>]_vars

C16_Witness ==
    /\ lcall.op = "contains"
    /\ ~lcall.found
    /\ lcall.page \in Pages
    /\ \E q \in Range(inserted[lcall.list]) :
         next[q] = next[lcall.page] /\ prev[q] = prev[lcall.page]

\* C17: on a page initialized for the layout's object size, is_full() is true
\* exactly when the allocate(layout) that follows it returns null.
C17_IsFullIffAllocateNull ==
    (/\ call.op = "allocate"
     /\ prevcall.op = "is_full"
     /\ inited.valid
     /\ inited.same_size
     /\ ~halted)
        => ((prevcall.outcome = "true") <=> (call.outcome = "Null"))

\* C18: is_empty(n), which is all_free(n), is true exactly when every slot
\* below n is clear, whatever the bits from n on are, for every n from 0 to
\* the number of slots.
C18_AllFree ==
    call.op = "is_empty" =>
        ((call.outcome = "true") <=>
            \A k \in Slots : k < call.relevant_bits => ~is_allocated(call.before, k))

C18_Witness ==
    /\ call.op = "is_empty"
    /\ call.outcome = "true"
    /\ call.relevant_bits = WORD_BITS
    /\ is_allocated(call.before, WORD_BITS)
    /\ is_allocated(call.before, NSLOTS - 1)

\* C20: every address allocate returns is base + i * size for a slot i that
\* was free before the call, is a multiple of the alignment, and leaves the
\* whole object inside the data area: i * size <= SIZE - METADATA_SIZE - size.
C20_AllocateInsideData ==
    (call.op = "allocate" /\ call.outcome = "Some") =>
        \E i \in Slots :
            /\ call.addr = base_addr + i * call.size
            /\ ~is_allocated(call.before, i)
            /\ call.addr % call.align = 0
            /\ i * call.size + call.size <= SIZE - METADATA_SIZE

\* the pages on the next chain that starts at link p, at most fuel of them
RECURSIVE chain(_, _, _)
chain(nx, p, fuel) ==
    IF p = NULL \/ fuel = 0 THEN {}
    ELSE {p} \cup chain(nx, nx[p], fuel - 1)

\* the pages reachable from the head of list l under heads hd and links nx
ReachableIn(hd, nx, l) == chain(nx, hd[l], NPages + 1)

\* the pages linked in some list
LinkedIn(hd, nx) == UNION {ReachableIn(hd, nx, l) : l \in Lists}

\* C21: with several lists and pages moved between them by pop or
\* remove_from_list followed by insert_front into another list, no page is
\* reachable from two list heads, every list's elements is its reachable page
\* count, a page becomes linked only by its own insert_front and unlinked
\* only by its own remove_from_list or by the pop that returns it.
C21_OneListPerPage ==
    /\ [](/\ \A l, m \in Lists :
               l # m => ReachableIn(head, next, l) \cap ReachableIn(head, next, m) = {}
          /\ \A l \in Lists :
               elements[l] = Cardinality(ReachableIn(head, next, l)))
    /\ [][\/ UNCHANGED <<head, next>>
           \/ LET before == LinkedIn(head, next)
                  after == LinkedIn(head', next')
              IN  /\ \A p \in after \ before :
                       /\ lcall'.op = "insert_front"
                       /\ lcall'.page = p
                       /\ ReachableIn(head', next', lcall'.list)
                            = ReachableIn(head, next, lcall'.list) \cup {p}
                  /\ \A p \in before \ after :
                       \/ lcall'.op = "remove_from_list" /\ lcall'.page = p
                       \/ lcall'.op = "pop" /\ lcall'.ret = p]_vars

\* a page taken out of one list has just been inserted into another list
\* that already held a page, and the list it came from still holds one
C21_Witness ==
    /\ lcall.op = "insert_front"
    /\ lcall.from # NULL
    /\ lcall.from # lcall.list
    /\ elements[lcall.list] >= 2
    /\ elements[lcall.from] >= 1
    /\ lcall.page \in Reachable(lcall.list)
    /\ lcall.page \notin Reachable(lcall.from)

\* C22: on a page initialized for one layout and used with that layout only,
\* deallocate being given live addresses only, allocate never returns an
\* address that is live, no two live objects overlap, and the live addresses
\* are exactly those of the set bits below the relevant-slot limit.
C22_NoDoubleAllocation ==
    /\ [](inited.valid =>
            /\ ~halted
            /\ \A x, y \in live :
                 x # y => (x + inited.for_size <= y \/ y + inited.for_size <= x)
            /\ live = {base_addr + k * inited.for_size :
                         k \in {j \in Slots :
                                  /\ j < relevant(inited.for_size, inited.capacity)
                                  /\ is_allocated(bitfield, j)}})
    /\ [][(call'.op = "allocate" /\ nops' = nops + 1 /\ call'.outcome = "Some")
            => /\ call'.addr \notin live
               /\ live' = live \cup {call'.addr}]_vars

\* an address given back by the preceding deallocate has been returned again
\* while other objects are live
C22_Witness ==
    /\ call.op = "allocate"
    /\ call.outcome = "Some"
    /\ prevcall.op = "deallocate"
    /\ prevcall.outcome = "Ok"
    /\ prevcall.ptr = call.addr
    /\ Cardinality(live) >= 3

====
